---- MODULE Spec2Model ----
(***************************************************************************)
(* Model of function<R(Args...)> (function.h): a type-erased callable      *)
(* container with a small-object buffer and a heap-owned adapter.          *)
(*                                                                         *)
(* A container is a slot.  Its union is modelled by `buffer`, whose `kind` *)
(* says which member was last constructed there (an in-place adapter or    *)
(* the unique_ptr big_pointer) and whose `life` says whether that member   *)
(* is still within its lifetime.  Heap adapters are cells of `heap`.       *)
(* Reads of destroyed or released objects are undefined behaviour; every   *)
(* operation takes an oracle o that picks among the outcomes a build can   *)
(* produce:                                                                *)
(*   o.dse   the stores a destructor makes into the dying object are       *)
(*           elided (the pointer keeps its old value), or are kept (the    *)
(*           pointer reads as null afterwards);                            *)
(*   o.trap  an access to a destroyed or released adapter, or a second     *)
(*           release, stops the program instead of reading stale bytes;    *)
(*   o.thr   the callable's copy (or the allocation) in a clone raises,    *)
(*           and so does the move of a callable that is not nothrow move   *)
(*           constructible; in the noexcept operations that is             *)
(*           std::terminate.                                               *)
(* A cell of `heap` names one allocation, not its address: a pointer to a  *)
(* released cell is dangling, and no later allocation takes its name.      *)
(* An adapter constructed in a buffer it does not fit is recorded as the    *)
(* fault buffer_overflow.  An in-place adapter overwritten while alive is   *)
(* no undefined behaviour; it is counted, per operation, in `abandoned`.    *)
(***************************************************************************)
EXTENDS Integers, FiniteSets, Sequences, TLC

\* ---- bounds -------------------------------------------------------------
MaxCont == 2
MaxAlloc == 3
MaxArg == 1
MaxOps == 3

\* ---- program constants --------------------------------------------------
MAX_SIZE == 128

\* ---- slots: the named containers, the locals of operator= and swap, and
\* the temporary that an assignment from a callable converts it into
Cont == 1..MaxCont
TmpAssign == MaxCont + 1
TmpSwap == MaxCont + 2
TmpValue == MaxCont + 3
Slots == 1..(MaxCont + 3)
AdapterIds == 1..MaxAlloc

\* ---- callables ----------------------------------------------------------
\* A callable type F: sizeof(F) and is_nothrow_move_constructible<F>.
Functor(size, nothrow) == [kind |-> "functor", size |-> size, nothrow |-> nothrow]
\* The callable types constructed from: a small one, a small one whose move
\* constructor may raise, one of exactly the buffer's size, and two larger
\* than the buffer, of which one has a move constructor that may raise.
Functors == {Functor(8, TRUE), Functor(8, FALSE), Functor(128, TRUE),
             Functor(256, TRUE), Functor(256, FALSE)}
MemberPointer == [kind |-> "member", size |-> 16, nothrow |-> TRUE]
Callables == Functors \cup {MemberPointer}
NoCallable == [kind |-> "none", size |-> 0, nothrow |-> TRUE]

\* sizeof of an adapter (wrapper_function<F>, wrapper_member): the pointer
\* to the virtual table that `wrapper` brings, then the callable, padded to
\* the pointer's alignment.
PointerSize == 8
AdapterSize(f) == ((PointerSize + f.size + PointerSize - 1) \div PointerSize) * PointerSize

Oracle == [dse : BOOLEAN, trap : BOOLEAN, thr : BOOLEAN]
\* The oracles of a destructor: nothing is copied or moved in it.
DestructorOracle == {o \in Oracle : ~o.thr}
\* The oracles of a constructor from a callable: nothing is destroyed in it.
ConstructOracle == {o \in Oracle : ~o.dse}

\* ---- union contents -----------------------------------------------------
Raw == [kind |-> "raw", ptr |-> 0, callable |-> NoCallable, life |-> FALSE]
UniquePtr(p) == [kind |-> "ptr", ptr |-> p, callable |-> NoCallable, life |-> TRUE]
InPlace(f) == [kind |-> "adapter", ptr |-> 0, callable |-> f, life |-> TRUE]
FreeCell == [state |-> "unused", callable |-> NoCallable]

VARIABLES constructed, small_object, buffer, heap, faults, crashed, last, result, ops

vars == <<constructed, small_object, buffer, heap, faults, crashed, last, result, ops>>

\* The memory of the program as one value, so that the operations compose.
\* `threw` and `abandoned` are about the operation in progress: whether it
\* has raised, and how many in-place adapters it has overwritten while they
\* were still alive, that is, without their destructor having run.
Cur == [constructed |-> constructed, small_object |-> small_object,
        buffer |-> buffer, heap |-> heap, faults |-> faults,
        crashed |-> crashed, threw |-> FALSE, abandoned |-> 0]

\* ---- undefined behaviour ------------------------------------------------
\* Records the fault; the program stops there when the oracle says it traps.
Fault(m, f, trap) ==
    [m EXCEPT !.faults = @ \cup {f}, !.crashed = @ \/ trap]

\* ---- heap ---------------------------------------------------------------
FreeIds(m) == {i \in AdapterIds : m.heap[i].state = "unused"}
NewId(m) == CHOOSE i \in FreeIds(m) : \A j \in FreeIds(m) : i <= j

\* delete through a unique_ptr: the first release of a cell frees it, any
\* later one is a double free.
Release(m, p, o) ==
    IF m.heap[p].state = "allocated"
    THEN [m EXCEPT !.heap[p].state = "released"]
    ELSE Fault([m EXCEPT !.heap[p].state = "double_released"], "double_free", o.trap)

\* Placement new of `content` into slot c's union.  Whatever was there is
\* overwritten without its destructor being run: an adapter still alive
\* there ends without ever being destroyed.
Emplace(m, c, content) ==
    [m EXCEPT !.buffer[c] = content,
              !.abandoned = IF m.buffer[c].kind = "adapter" /\ m.buffer[c].life
                            THEN @ + 1 ELSE @]

\* Mutant: the adapter constructed at the target does not get the callable.
move_by_pointer_Loses(m, s, d, o) ==
    LET b == m.buffer[s] IN
    IF m.crashed THEN m
    ELSE IF b.kind # "adapter" THEN Fault(m, "inactive_member", TRUE)
    ELSE LET m1 == IF b.life THEN m ELSE Fault(m, "destroyed_adapter_used", o.trap)
         IN  IF m1.crashed THEN m1
             ELSE IF o.thr /\ ~b.callable.nothrow THEN [m1 EXCEPT !.crashed = TRUE]
             ELSE Emplace(m1, d, InPlace(NoCallable))

\* ---- erased interface (wrapper, wrapper_function, wrapper_member) --------
\* Virtual move_by_pointer on the adapter in slot s's buffer: constructs a
\* new adapter in slot d's buffer from the moved callable.  Its callers are
\* all noexcept, so a move constructor that raises ends the program.
move_by_pointer(m, s, d, o) ==
    LET b == m.buffer[s] IN
    IF m.crashed THEN m
    ELSE IF b.kind # "adapter" THEN Fault(m, "inactive_member", TRUE)
    ELSE LET m1 == IF b.life THEN m ELSE Fault(m, "destroyed_adapter_used", o.trap)
         IN  IF m1.crashed THEN m1
             ELSE IF o.thr /\ ~b.callable.nothrow THEN [m1 EXCEPT !.crashed = TRUE]
             ELSE Emplace(m1, d, InPlace(b.callable))

\* Virtual clone_small on the adapter in slot s's buffer: copy-constructs an
\* adapter in slot d's buffer; the callable's copy constructor may raise.
clone_small(m, s, d, o) ==
    LET b == m.buffer[s] IN
    IF m.crashed THEN m
    ELSE IF b.kind # "adapter" THEN Fault(m, "inactive_member", TRUE)
    ELSE LET m1 == IF b.life THEN m ELSE Fault(m, "destroyed_adapter_used", o.trap)
         IN  IF m1.crashed THEN m1
             ELSE IF o.thr THEN [m1 EXCEPT !.threw = TRUE]
             ELSE Emplace(m1, d, InPlace(b.callable))

\* Mutant: the copy shares the source's heap adapter instead of cloning it.
clone_Aliases(m, s, d, o) ==
    LET b == m.buffer[s] IN
    IF m.crashed THEN m
    ELSE IF b.kind # "ptr" THEN Fault(m, "inactive_member", TRUE)
    ELSE IF b.ptr = 0 THEN Fault(m, "null_dereference", TRUE)
    ELSE IF o.thr THEN [m EXCEPT !.threw = TRUE]
    ELSE Emplace(m, d, UniquePtr(b.ptr))

\* (other.big_pointer)->clone(), its result stored as slot d's big_pointer.
\* A null big_pointer is dereferenced all the same: the virtual call loads
\* the vtable through address 0.
clone(m, s, d, o) ==
    LET b == m.buffer[s] IN
    IF m.crashed THEN m
    ELSE IF b.kind # "ptr" THEN Fault(m, "inactive_member", TRUE)
    ELSE LET m1 == IF b.life THEN m ELSE Fault(m, "destroyed_pointer_used", FALSE)
         IN  IF b.ptr = 0 THEN Fault(m1, "null_dereference", TRUE)
             ELSE LET m2 == IF m1.heap[b.ptr].state = "allocated" THEN m1
                            ELSE Fault(m1, "use_after_free", o.trap)
                  IN  IF m2.crashed THEN m2
                      ELSE IF o.thr THEN [m2 EXCEPT !.threw = TRUE]
                      ELSE LET id == NewId(m2)
                               m3 == [m2 EXCEPT !.heap[id] =
                                        [state |-> "allocated",
                                         callable |-> m2.heap[b.ptr].callable]]
                           IN  Emplace(m3, d, UniquePtr(id))

\* Mutant: the pointer is copied and the source keeps it.
MovePointer_Shares(m, d, s) ==
    LET b == m.buffer[s] IN
    IF m.crashed THEN m
    ELSE IF b.kind # "ptr" THEN Fault(m, "inactive_member", TRUE)
    ELSE LET m1 == IF b.life THEN m ELSE Fault(m, "destroyed_pointer_used", FALSE)
         IN  Emplace(m1, d, UniquePtr(b.ptr))

\* new (buffer) unique_ptr<wrapper>(std::move(other.big_pointer)): the move
\* constructor of unique_ptr releases the source pointer (nulls it), then
\* initialises the destination with the value read.
MovePointer(m, d, s) ==
    LET b == m.buffer[s] IN
    IF m.crashed THEN m
    ELSE IF b.kind # "ptr" THEN Fault(m, "inactive_member", TRUE)
    ELSE LET m1 == IF b.life THEN m ELSE Fault(m, "destroyed_pointer_used", FALSE)
             m2 == [m1 EXCEPT !.buffer[s].ptr = 0]
         IN  Emplace(m2, d, UniquePtr(b.ptr))

\* Mutant: destruction() does not release the heap adapter.
destruction_Leaks(m, c, o) ==
    LET b == m.buffer[c] IN
    IF m.crashed THEN m
    ELSE IF m.small_object[c]
    THEN IF b.kind # "adapter" THEN Fault(m, "inactive_member", TRUE)
         ELSE IF b.life THEN [m EXCEPT !.buffer[c].life = FALSE]
         ELSE Fault(m, "destroyed_adapter_used", o.trap)
    ELSE IF b.kind # "ptr" THEN Fault(m, "inactive_member", TRUE)
         ELSE LET m1 == IF b.life THEN m ELSE Fault(m, "destroyed_pointer_used", FALSE)
              IN  [m1 EXCEPT !.buffer[c].life = FALSE,
                             !.buffer[c].ptr = IF o.dse THEN b.ptr ELSE 0]

\* ---- container ----------------------------------------------------------
\* function::destruction()
destruction(m, c, o) ==
    LET b == m.buffer[c] IN
    IF m.crashed THEN m
    ELSE IF m.small_object[c]
    THEN \* reinterpret_cast<wrapper*>(buffer)->~wrapper(), a virtual call
         IF b.kind # "adapter" THEN Fault(m, "inactive_member", TRUE)
         ELSE IF b.life THEN [m EXCEPT !.buffer[c].life = FALSE]
         ELSE Fault(m, "destroyed_adapter_used", o.trap)
    ELSE \* big_pointer.~unique_ptr()
         IF b.kind # "ptr" THEN Fault(m, "inactive_member", TRUE)
         ELSE LET m1 == IF b.life THEN m ELSE Fault(m, "destroyed_pointer_used", FALSE)
                  m2 == IF b.ptr # 0 THEN Release(m1, b.ptr, o) ELSE m1
              IN  IF m2.crashed THEN m2
                  ELSE [m2 EXCEPT !.buffer[c].life = FALSE,
                                  !.buffer[c].ptr = IF o.dse THEN b.ptr ELSE 0]

\* function(std::nullptr_t) and, by delegation, function()
function_null(m, c) ==
    LET m1 == [m EXCEPT !.small_object[c] = FALSE, !.constructed[c] = TRUE]
    IN  Emplace(m1, c, UniquePtr(0))

\* function(F f).  make_unique may raise (o.thr), and so may the move of a
\* callable that is not nothrow move constructible; the container then does
\* not come to exist.  The in-place branch constructs the adapter in the
\* buffer whatever its size: one larger than the buffer is written past the
\* end of the union.
function_from(m, c, f, o) ==
    IF f.nothrow /\ f.size > MAX_SIZE
    THEN IF o.thr THEN [m EXCEPT !.threw = TRUE]
         ELSE LET id == NewId(m)
                  m1 == [m EXCEPT !.small_object[c] = FALSE, !.constructed[c] = TRUE,
                                  !.heap[id] = [state |-> "allocated", callable |-> f]]
              IN  Emplace(m1, c, UniquePtr(id))
    ELSE IF o.thr /\ ~f.nothrow THEN [m EXCEPT !.threw = TRUE]
         ELSE LET m1 == [m EXCEPT !.small_object[c] = TRUE, !.constructed[c] = TRUE]
                  m2 == Emplace(m1, c, InPlace(f))
              IN  IF AdapterSize(f) > MAX_SIZE
                  THEN Fault(m2, "buffer_overflow", o.trap)
                  ELSE m2

\* function(F Class::* member)
function_member(m, c, f) ==
    LET m1 == [m EXCEPT !.small_object[c] = TRUE, !.constructed[c] = TRUE]
    IN  Emplace(m1, c, InPlace(f))

\* Mutant: the copy constructor leaves small_object clear.
function_copy_DropsFlag(m, d, s, o) ==
    LET m1 == IF m.small_object[s] THEN clone_small(m, s, d, o)
              ELSE clone(m, s, d, o)
    IN  IF m1.crashed \/ m1.threw THEN m1
        ELSE [m1 EXCEPT !.small_object[d] = FALSE,
                        !.constructed[d] = TRUE]

\* function(const function& other), constructing slot d from slot s
function_copy(m, d, s, o) ==
    LET m1 == IF m.small_object[s] THEN clone_small(m, s, d, o)
              ELSE clone(m, s, d, o)
    IN  IF m1.crashed \/ m1.threw THEN m1
        ELSE [m1 EXCEPT !.small_object[d] = m1.small_object[s],
                        !.constructed[d] = TRUE]

\* Mutant: the move constructor forgets other.small_object = false.
function_move_KeepsFlag(m, d, s, o) ==
    LET m1 == IF m.small_object[s]
              THEN LET r == move_by_pointer(m, s, d, o)
                   IN  IF r.crashed THEN r ELSE Emplace(r, s, UniquePtr(0))
              ELSE MovePointer(m, d, s)
    IN  IF m1.crashed THEN m1
        ELSE [m1 EXCEPT !.small_object[d] = m1.small_object[s],
                        !.constructed[d] = TRUE]

\* function(function&& other) noexcept, constructing slot d from slot s
function_move(m, d, s, o) ==
    LET m1 == IF m.small_object[s]
              THEN LET r == move_by_pointer(m, s, d, o)
                   IN  IF r.crashed THEN r ELSE Emplace(r, s, UniquePtr(0))
              ELSE MovePointer(m, d, s)
    IN  IF m1.crashed THEN m1
        ELSE LET m2 == [m1 EXCEPT !.small_object[d] = m1.small_object[s],
                                  !.constructed[d] = TRUE]
             IN  [m2 EXCEPT !.small_object[s] = FALSE]

\* ~function()
Destructor(m, c, o) ==
    LET m1 == destruction(m, c, o)
    IN  IF m1.crashed THEN m1
        ELSE [m1 EXCEPT !.constructed[c] = FALSE, !.small_object[c] = FALSE,
                        !.buffer[c] = Raw]

\* Mutant: move assignment from a heap source clones the adapter for the
\* destination and nulls the source's pointer without releasing it.
assign_move_Clones(m, d, s, o) ==
    LET m0 == destruction(m, d, o)
        m1 == IF m0.crashed THEN m0
              ELSE IF m0.small_object[s]
              THEN LET r == move_by_pointer(m0, s, d, o)
                   IN  IF r.crashed THEN r ELSE Emplace(r, s, UniquePtr(0))
              ELSE IF m0.buffer[s].ptr # 0 /\ FreeIds(m0) # {}
              THEN LET r == clone(m0, s, d, [o EXCEPT !.thr = FALSE])
                   IN  IF r.crashed THEN r ELSE Emplace(r, s, UniquePtr(0))
              ELSE MovePointer(m0, d, s)
    IN  IF m1.crashed THEN m1
        ELSE LET m2 == [m1 EXCEPT !.small_object[d] = m1.small_object[s]]
             IN  [m2 EXCEPT !.small_object[s] = FALSE]

\* Mutant: move assignment forgets small_object = other.small_object.
assign_move_StaleFlag(m, d, s, o) ==
    LET m0 == destruction(m, d, o)
        m1 == IF m0.crashed THEN m0
              ELSE IF m0.small_object[s]
              THEN LET r == move_by_pointer(m0, s, d, o)
                   IN  IF r.crashed THEN r ELSE Emplace(r, s, UniquePtr(0))
              ELSE MovePointer(m0, d, s)
    IN  IF m1.crashed THEN m1
        ELSE [m1 EXCEPT !.small_object[s] = FALSE]

\* operator=(function&& other) noexcept, assigning slot s to slot d
assign_move(m, d, s, o) ==
    LET m0 == destruction(m, d, o)
        m1 == IF m0.crashed THEN m0
              ELSE IF m0.small_object[s]
              THEN LET r == move_by_pointer(m0, s, d, o)
                   IN  IF r.crashed THEN r ELSE Emplace(r, s, UniquePtr(0))
              ELSE MovePointer(m0, d, s)
    IN  IF m1.crashed THEN m1
        ELSE LET m2 == [m1 EXCEPT !.small_object[d] = m1.small_object[s]]
             IN  [m2 EXCEPT !.small_object[s] = FALSE]

\* Mutant: swap ends with other = std::move(tmp), so this is left empty and
\* other gets its own value back.
swap_WrongTarget(m, a, b, o) ==
    LET m1 == function_move(m, TmpSwap, b, o)
        m2 == assign_move(m1, b, a, o)
        m3 == assign_move(m2, b, TmpSwap, o)
    IN  Destructor(m3, TmpSwap, o)

\* this->swap(other), with this = slot a and other = slot b
swap(m, a, b, o) ==
    LET m1 == function_move(m, TmpSwap, b, o)
        m2 == assign_move(m1, b, a, o)
        m3 == assign_move(m2, a, TmpSwap, o)
    IN  Destructor(m3, TmpSwap, o)

\* operator=(const function& other), assigning slot s to slot d
assign_copy(m, d, s, o) ==
    LET m1 == destruction(m, d, o)
        m2 == function_copy(m1, TmpAssign, s, o)
    IN  IF m2.crashed \/ m2.threw THEN m2
        ELSE Destructor(swap(m2, d, TmpAssign, o), TmpAssign, o)

\* c = f for a callable f.  There is no operator=(F): f is converted by
\* function(F f) into a temporary, operator=(function&&) moves from it, and
\* the temporary is destroyed at the end of the full expression.  When the
\* conversion raises, the assignment is not entered.
assign_from(m, c, f, o) ==
    LET m1 == function_from(m, TmpValue, f, o)
    IN  IF m1.crashed \/ m1.threw THEN m1
        ELSE Destructor(assign_move(m1, c, TmpValue, o), TmpValue, o)

\* explicit operator bool() const noexcept
operator_bool(m, c) ==
    m.small_object[c] \/ m.buffer[c].ptr # 0

\* The fault of operator bool: when the flag is clear it reads big_pointer,
\* which must be within its lifetime.
BoolEffect(m, c) ==
    IF ~m.small_object[c] /\ ~m.buffer[c].life
    THEN Fault(m, "destroyed_pointer_used", FALSE)
    ELSE m

\* R operator()(Args... args): the outcome of the call on slot c.
\* o.thr: the wrapped callable raises, which is propagated.
operator_call(m, c, arg, o) ==
    LET b == m.buffer[c] IN
    IF ~operator_bool(m, c)
    THEN [kind |-> "bad_function_call", callable |-> NoCallable, arg |-> arg]
    ELSE LET f == IF m.small_object[c] THEN b.callable ELSE m.heap[b.ptr].callable
         IN  [kind |-> IF o.thr THEN "raised" ELSE "returned",
              callable |-> f, arg |-> arg]

\* Mutant: a call whose callable raises destroys the adapter it ran.
CallEffect_Consumes(m, c, o) ==
    LET b == m.buffer[c]
        m0 == BoolEffect(m, c)
    IN  IF ~operator_bool(m, c) THEN m0
        ELSE IF m.small_object[c]
        THEN IF b.kind = "adapter" /\ b.life
             THEN (IF o.thr THEN [m0 EXCEPT !.buffer[c].life = FALSE] ELSE m0)
             ELSE Fault(m0, "destroyed_adapter_used", o.trap)
        ELSE IF m.heap[b.ptr].state = "allocated"
             THEN (IF o.thr THEN [m0 EXCEPT !.heap[b.ptr].state = "released"] ELSE m0)
             ELSE Fault(m0, "use_after_free", o.trap)

\* The faults of the dispatch in operator(): the adapter called must be
\* constructed and neither destroyed nor released.
CallEffect(m, c, o) ==
    LET b == m.buffer[c]
        m0 == BoolEffect(m, c)
    IN  IF ~operator_bool(m, c) THEN m0
        ELSE IF m.small_object[c]
        THEN IF b.kind = "adapter" /\ b.life THEN m0
             ELSE Fault(m0, "destroyed_adapter_used", o.trap)
        ELSE IF m.heap[b.ptr].state = "allocated" THEN m0
             ELSE Fault(m0, "use_after_free", o.trap)

\* ---- observation --------------------------------------------------------
\* What a container holds: its mode and liveness, the stored callable, and
\* whether the adapter (or pointer) it designates is still a live object.
View(m, c) ==
    LET b == m.buffer[c] IN
    IF ~m.constructed[c]
    THEN [state |-> "dead", callable |-> NoCallable, intact |-> TRUE]
    ELSE IF m.small_object[c]
    THEN [state |-> "inline", callable |-> b.callable,
          intact |-> b.kind = "adapter" /\ b.life]
    ELSE IF b.ptr = 0
    THEN [state |-> "empty", callable |-> NoCallable,
          intact |-> b.kind = "ptr" /\ b.life]
    ELSE [state |-> "heap", callable |-> m.heap[b.ptr].callable,
          intact |-> b.kind = "ptr" /\ b.life /\ m.heap[b.ptr].state = "allocated"]

\* The heap adapter slot c's big_pointer designates (0: none).
Owned(m, c) ==
    IF m.constructed[c] /\ ~m.small_object[c] THEN m.buffer[c].ptr ELSE 0

Allocated(m) == {i \in AdapterIds : m.heap[i].state = "allocated"}

NoResult == [kind |-> "none", callable |-> NoCallable, arg |-> 0]

\* The operation that produced the current state, and whether it raised.
Did(op, d, s, r) ==
    [op |-> op, dst |-> d, src |-> s, threw |-> r.threw, callable |-> NoCallable,
     abandoned |-> r.abandoned]

\* The same for an operation that takes a callable f.
DidWith(op, d, f, r) ==
    [op |-> op, dst |-> d, src |-> 0, threw |-> r.threw, callable |-> f,
     abandoned |-> r.abandoned]

Commit(r) ==
    /\ constructed' = r.constructed
    /\ small_object' = r.small_object
    /\ buffer' = r.buffer
    /\ heap' = r.heap
    /\ faults' = r.faults
    /\ crashed' = r.crashed
    /\ ops' = ops + 1

\* A clone of slot s's heap adapter needs a fresh cell.
NeedsId(m, s) == ~m.small_object[s] /\ m.buffer[s].ptr # 0

Init ==
    /\ constructed = [c \in Slots |-> FALSE]
    /\ small_object = [c \in Slots |-> FALSE]
    /\ buffer = [c \in Slots |-> Raw]
    /\ heap = [i \in AdapterIds |-> FreeCell]
    /\ faults = {}
    /\ crashed = FALSE
    /\ last = [op |-> "none", dst |-> 0, src |-> 0, threw |-> FALSE,
               callable |-> NoCallable, abandoned |-> 0]
    /\ result = NoResult
    /\ ops = 0

\* ---- operations ---------------------------------------------------------
\* The program is followed for MaxOps operations, and up to and including
\* the operation in which it first has undefined behaviour, and no further.
Running == ~crashed /\ faults = {} /\ ops < MaxOps

ConstructNull(c) ==
    /\ Running /\ ~constructed[c]
    /\ LET r == function_null(Cur, c)
       IN  Commit(r) /\ last' = Did("function(nullptr)", c, 0, r)
    /\ result' = NoResult

ConstructDefault(c) ==
    /\ Running /\ ~constructed[c]
    /\ LET r == function_null(Cur, c)
       IN  Commit(r) /\ last' = Did("function()", c, 0, r)
    /\ result' = NoResult

ConstructFrom(c, f, o) ==
    /\ Running /\ ~constructed[c]
    /\ (f.nothrow /\ f.size > MAX_SIZE) => FreeIds(Cur) # {}
    /\ LET r == function_from(Cur, c, f, o)
       IN  Commit(r) /\ last' = DidWith("function(F)", c, f, r)
    /\ result' = NoResult

ConstructMember(c) ==
    /\ Running /\ ~constructed[c]
    /\ LET r == function_member(Cur, c, MemberPointer)
       IN  Commit(r) /\ last' = DidWith("function(F Class::*)", c, MemberPointer, r)
    /\ result' = NoResult

CopyConstruct(d, s, o) ==
    /\ Running /\ ~constructed[d] /\ constructed[s]
    /\ NeedsId(Cur, s) => FreeIds(Cur) # {}
    /\ LET r == function_copy(Cur, d, s, o)
       IN  Commit(r) /\ last' = Did("copy_construct", d, s, r)
    /\ result' = NoResult

MoveConstruct(d, s, o) ==
    /\ Running /\ ~constructed[d] /\ constructed[s]
    /\ LET r == function_move(Cur, d, s, o)
       IN  Commit(r) /\ last' = Did("move_construct", d, s, r)
    /\ result' = NoResult

CopyAssign(d, s, o) ==
    /\ Running /\ constructed[d] /\ constructed[s]
    /\ NeedsId(Cur, s) => FreeIds(Cur) # {}
    /\ LET r == assign_copy(Cur, d, s, o)
       IN  Commit(r) /\ last' = Did("copy_assign", d, s, r)
    /\ result' = NoResult

MoveAssign(d, s, o) ==
    /\ Running /\ constructed[d] /\ constructed[s]
    /\ LET r == assign_move(Cur, d, s, o)
       IN  Commit(r) /\ last' = Did("move_assign", d, s, r)
    /\ result' = NoResult

AssignFrom(c, f, o) ==
    /\ Running /\ constructed[c]
    /\ (f.nothrow /\ f.size > MAX_SIZE) => FreeIds(Cur) # {}
    /\ LET r == assign_from(Cur, c, f, o)
       IN  Commit(r) /\ last' = DidWith("assign_from", c, f, r)
    /\ result' = NoResult

Swap(a, b, o) ==
    /\ Running /\ constructed[a] /\ constructed[b]
    /\ LET r == swap(Cur, a, b, o)
       IN  Commit(r) /\ last' = Did("swap", a, b, r)
    /\ result' = NoResult

Destroy(c, o) ==
    /\ Running /\ constructed[c]
    /\ LET r == Destructor(Cur, c, o)
       IN  Commit(r) /\ last' = Did("destroy", c, 0, r)
    /\ result' = NoResult

BoolTest(c) ==
    /\ Running /\ constructed[c]
    /\ LET r == BoolEffect(Cur, c)
       IN  Commit(r) /\ last' = Did("bool", c, 0, r)
    /\ result' = [kind |-> "bool", callable |-> NoCallable,
                  arg |-> IF operator_bool(Cur, c) THEN 1 ELSE 0]

Call(c, arg, o) ==
    /\ Running /\ constructed[c]
    /\ LET r == CallEffect(Cur, c, o)
       IN  /\ Commit(r)
           /\ last' = Did("call", c, 0, r)
           /\ result' = IF r.crashed THEN NoResult ELSE operator_call(Cur, c, arg, o)

Next ==
    \/ \E c \in Cont : ConstructNull(c)
    \/ \E c \in Cont : ConstructDefault(c)
    \/ \E c \in Cont, f \in Functors, o \in ConstructOracle : ConstructFrom(c, f, o)
    \/ \E c \in Cont : ConstructMember(c)
    \/ \E d, s \in Cont, o \in Oracle : CopyConstruct(d, s, o)
    \/ \E d, s \in Cont, o \in Oracle : MoveConstruct(d, s, o)
    \/ \E d, s \in Cont, o \in Oracle : CopyAssign(d, s, o)
    \/ \E d, s \in Cont, o \in Oracle : MoveAssign(d, s, o)
    \/ \E c \in Cont, f \in Functors, o \in Oracle : AssignFrom(c, f, o)
    \/ \E a, b \in Cont, o \in Oracle : Swap(a, b, o)
    \/ \E c \in Cont, o \in DestructorOracle : Destroy(c, o)
    \/ \E c \in Cont : BoolTest(c)
    \/ \E c \in Cont, arg \in 0..MaxArg, o \in Oracle : Call(c, arg, o)

Spec == Init /\ [][Next]_vars

\* ---- sanity -------------------------------------------------------------
TypeOK ==
    /\ constructed \in [Slots -> BOOLEAN]
    /\ small_object \in [Slots -> BOOLEAN]
    /\ \A c \in Slots : buffer[c].kind \in {"raw", "ptr", "adapter"}
    /\ \A c \in Slots : buffer[c].ptr \in AdapterIds \cup {0}
    /\ \A i \in AdapterIds :
         heap[i].state \in {"unused", "allocated", "released", "double_released"}
    /\ crashed \in BOOLEAN
    /\ ~crashed => \A c \in Slots \ Cont : ~constructed[c]

\* The mode flag always names the union member last constructed.
ActiveMember ==
    \A c \in Cont : constructed[c] /\ ~crashed =>
        buffer[c].kind = (IF small_object[c] THEN "adapter" ELSE "ptr")

\* ---- vocabulary of the properties ----------------------------------------
\* The memory after the step.
Nxt == [constructed |-> constructed', small_object |-> small_object',
        buffer |-> buffer', heap |-> heap', faults |-> faults',
        crashed |-> crashed', threw |-> FALSE, abandoned |-> 0]

\* Slot c is a container in one of the three states of the design: empty,
\* live-inline or live-heap, with the object its union holds alive.
Sound(m, c) == m.constructed[c] /\ View(m, c).intact
Empty(m, c) == Sound(m, c) /\ View(m, c).state = "empty"
Live(m, c) == Sound(m, c) /\ View(m, c).state \in {"inline", "heap"}

\* The step is operation op.
Step(op) == last'.op = op

\* C1: a call on an empty container raises bad_function_call, dispatches to
\* no adapter and leaves the container empty, and the containers left behind
\* by the default and nullptr constructors, by a move out of them, or by a
\* move construction from an empty container are empty.
C1_EmptyCallRaises ==
    [][ /\ (Step("call") /\ Empty(Cur, last'.dst)) =>
            /\ result'.kind = "bad_function_call"
            /\ result'.callable = NoCallable
            /\ faults' = {} /\ ~crashed'
            /\ Empty(Nxt, last'.dst)
            /\ heap' = heap
        /\ (Step("function()") \/ Step("function(nullptr)")) =>
            Empty(Nxt, last'.dst)
        /\ (Step("move_construct") /\ Sound(Cur, last'.src) /\ ~crashed') =>
            Empty(Nxt, last'.src)
        /\ (Step("move_assign") /\ last'.dst # last'.src /\ ~crashed'
              /\ Sound(Cur, last'.src) /\ Sound(Cur, last'.dst)) =>
            Empty(Nxt, last'.src)
        /\ (Step("move_construct") /\ Empty(Cur, last'.src)) =>
            Empty(Nxt, last'.dst)
      ]_vars

\* C1 witness: a call on an empty container, beside a live one, has raised
\* bad_function_call.
C1_Witness ==
    /\ last.op = "call" /\ result.kind = "bad_function_call"
    /\ Empty(Cur, last.dst)
    /\ \E d \in Cont : Live(Cur, d)

\* C2: a move construction of d from a source s that is empty, live-inline
\* or live-heap has no undefined behaviour and, once it has returned, has
\* left s empty and given d the liveness, mode, callable and heap adapter s
\* had; calling an empty d or s raises; destroying s afterwards changes
\* neither d nor the adapter d owns.
C2_MoveConstruct ==
    [][ (Step("move_construct") /\ Sound(Cur, last'.src)) =>
          LET d == last'.dst
              s == last'.src
          IN  /\ faults' = {}
              /\ ~crashed' =>
                   /\ ~operator_bool(Nxt, s) /\ Empty(Nxt, s)
                   /\ View(Nxt, d) = View(Cur, s)
                   /\ Owned(Nxt, d) = Owned(Cur, s)
                   /\ Empty(Cur, s) =>
                        \A c \in {d, s}, arg \in 0..MaxArg, o \in Oracle :
                           operator_call(Nxt, c, arg, o).kind = "bad_function_call"
                   /\ \A o \in DestructorOracle :
                        LET after == Destructor(Nxt, s, o)
                        IN  /\ after.faults = {}
                            /\ View(after, d) = View(Nxt, d)
                            /\ Owned(after, d) = Owned(Nxt, d)
                            /\ after.heap = heap'
      ]_vars

\* C2 witness: a live-heap container has been move-constructed from.
C2_Witness ==
    /\ last.op = "move_construct" /\ faults = {}
    /\ Live(Cur, last.dst) /\ View(Cur, last.dst).state = "heap"
    /\ Empty(Cur, last.src)

\* C3: self copy-assignment c = c of a live container, inline or heap, that
\* does not raise leaves c live in the same mode with the same callable, and
\* reads no state of c that destruction() has already destroyed.
C3_SelfCopyAssign ==
    [][ (Step("copy_assign") /\ last'.dst = last'.src /\ ~last'.threw
           /\ Live(Cur, last'.dst)) =>
          /\ faults' = {} /\ ~crashed'
          /\ View(Nxt, last'.dst) = View(Cur, last'.dst)
      ]_vars

\* C4: copy-constructing from an empty source yields an empty container,
\* dereferences no null pointer, allocates nothing and leaves the source
\* empty.
C4_CopyOfEmpty ==
    [][ (Step("copy_construct") /\ Empty(Cur, last'.src)) =>
          /\ "null_dereference" \notin faults' /\ ~crashed'
          /\ Empty(Nxt, last'.dst)
          /\ Empty(Nxt, last'.src)
          /\ heap' = heap
      ]_vars

\* C5: every heap adapter that is allocated is released exactly once: none
\* is released a second time, and once every container has been destroyed
\* none is still allocated.
C5_ReleasedExactlyOnce ==
    /\ "double_free" \notin faults
    /\ \A i \in AdapterIds : heap[i].state # "double_released"
    /\ ((\A c \in Slots : ~constructed[c]) /\ ~crashed) => Allocated(Cur) = {}

\* C8: when the clone raises during copy-assignment a = b, a still holds its
\* original value: its adapter is neither destroyed nor released, and a can
\* be called and later destroyed exactly once.
C8_FailedCopyAssignKeepsValue ==
    [][ (Step("copy_assign") /\ last'.threw /\ last'.dst # last'.src
           /\ Live(Cur, last'.dst) /\ Sound(Cur, last'.src)) =>
          LET a == last'.dst
          IN  /\ View(Nxt, a) = View(Cur, a)
              /\ Owned(Nxt, a) = Owned(Cur, a)
              /\ \A o \in Oracle : CallEffect(Nxt, a, o).faults = {}
              /\ \A o \in DestructorOracle : Destructor(Nxt, a, o).faults = {}
      ]_vars

\* C6: no two containers hold the same heap adapter.  A copy of a live-heap
\* container owns a newly allocated adapter, a copy of a live-inline
\* container holds an adapter in its own buffer, and after a move the source
\* no longer refers to the adapter it handed over.
C6_SingleOwner ==
    [][ /\ \A a, b \in Cont :
             (a # b /\ Owned(Nxt, a) # 0) => Owned(Nxt, a) # Owned(Nxt, b)
        /\ (Step("copy_construct") /\ ~last'.threw /\ Live(Cur, last'.src)) =>
             LET d == last'.dst
                 s == last'.src
             IN  IF View(Cur, s).state = "heap"
                 THEN /\ Owned(Nxt, d) \notin Allocated(Cur) \cup {0}
                      /\ Owned(Nxt, d) \in Allocated(Nxt)
                      /\ Owned(Nxt, s) = Owned(Cur, s)
                 ELSE /\ Owned(Nxt, d) = 0
                      /\ buffer'[d].kind = "adapter" /\ buffer'[d].life
                      /\ buffer'[s].kind = "adapter" /\ buffer'[s].life
        /\ ((Step("move_construct") \/ Step("move_assign"))
              /\ last'.dst # last'.src /\ Sound(Cur, last'.src)
              /\ (Sound(Cur, last'.dst) \/ ~constructed[last'.dst])
              /\ ~crashed') =>
             /\ Owned(Nxt, last'.src) = 0
             /\ Owned(Nxt, last'.dst) = Owned(Cur, last'.src)
      ]_vars

\* C6 witness: a live-heap container has been copied and both are live.
C6_Witness ==
    /\ last.op = "copy_construct" /\ ~last.threw /\ faults = {}
    /\ Live(Cur, last.dst) /\ Live(Cur, last.src)
    /\ Owned(Cur, last.dst) # 0 /\ Owned(Cur, last.src) # 0

\* C7: a copy construction from a live source that completes yields a live
\* container of the same mode holding the same callable, so that calls with
\* the same arguments have the same outcome; the source's mode, liveness,
\* callable and adapter are unchanged.
C7_CopyConstruct ==
    [][ (Step("copy_construct") /\ ~last'.threw /\ Live(Cur, last'.src)) =>
          LET d == last'.dst
              s == last'.src
          IN  /\ faults' = {} /\ ~crashed'
              /\ Live(Nxt, d)
              /\ View(Nxt, d) = View(Cur, s)
              /\ View(Nxt, s) = View(Cur, s)
              /\ Owned(Nxt, s) = Owned(Cur, s)
              /\ buffer'[s] = buffer[s]
              /\ \A arg \in 0..MaxArg, o \in Oracle :
                   /\ operator_call(Nxt, d, arg, o) = operator_call(Nxt, s, arg, o)
                   /\ operator_call(Nxt, d, arg, o).callable = View(Cur, s).callable
      ]_vars

\* C7 witness: a live-inline container has been copied.
C7_Witness ==
    /\ last.op = "copy_construct" /\ ~last.threw /\ faults = {}
    /\ Live(Cur, last.dst) /\ View(Cur, last.dst).state = "inline"
    /\ View(Cur, last.src) = View(Cur, last.dst)

\* C9: a.swap(b) on two distinct containers, each empty, live-inline or
\* live-heap, has no undefined behaviour and, once it has returned, has
\* given a the liveness, mode, callable and heap adapter b had and b those
\* a had.
C9_Swap ==
    [][ (Step("swap") /\ last'.dst # last'.src
           /\ Sound(Cur, last'.dst) /\ Sound(Cur, last'.src)) =>
          LET a == last'.dst
              b == last'.src
          IN  /\ faults' = {}
              /\ ~crashed' =>
                   /\ View(Nxt, a) = View(Cur, b)
                   /\ View(Nxt, b) = View(Cur, a)
                   /\ Owned(Nxt, a) = Owned(Cur, b)
                   /\ Owned(Nxt, b) = Owned(Cur, a)
      ]_vars

\* C9 witness: a live-inline and a live-heap container have been swapped.
C9_Witness ==
    /\ last.op = "swap" /\ last.dst # last.src /\ faults = {}
    /\ View(Cur, last.dst).state = "heap" /\ Live(Cur, last.dst)
    /\ View(Cur, last.src).state = "inline" /\ Live(Cur, last.src)

\* C10: whenever a.swap(b) has been performed on containers that were each
\* empty, live-inline or live-heap, performing a.swap(b) again restores the
\* liveness, mode, callable and heap adapter that a and b had before the
\* first swap (a and b may be the same container).
C10_SwapTwice ==
    [][ (Step("swap") /\ Sound(Cur, last'.dst) /\ Sound(Cur, last'.src)
           /\ ~crashed') =>
          LET a == last'.dst
              b == last'.src
          IN  \A o \in Oracle : \A twice \in {swap(Nxt, a, b, o)} :
                ~twice.crashed =>
                  /\ View(twice, a) = View(Cur, a)
                  /\ View(twice, b) = View(Cur, b)
                  /\ Owned(twice, a) = Owned(Cur, a)
                  /\ Owned(twice, b) = Owned(Cur, b)
                  /\ ~twice.constructed[TmpSwap]
      ]_vars

\* C10 witness: a live-heap container and a live-inline one have been
\* swapped, so that the second swap starts from exchanged contents.
C10_Witness ==
    /\ last.op = "swap" /\ last.dst # last.src /\ faults = {} /\ ~crashed
    /\ Live(Cur, last.dst) /\ View(Cur, last.dst).state = "inline"
    /\ Live(Cur, last.src) /\ View(Cur, last.src).state = "heap"

\* C11: move construction, move assignment and swap allocate no heap adapter
\* and clone none: no cell of the heap becomes allocated and none changes
\* its callable, so the allocated adapters after the step are among those
\* before it.  For a live-heap source and a distinct destination the very
\* adapter the source owned is the one the destination owns afterwards, it
\* is still allocated, and the source's pointer is null; a swap of two
\* distinct containers leaves the heap as it was.
C11_MovesNeverAllocate ==
    [][ /\ (Step("move_construct") \/ Step("move_assign") \/ Step("swap")) =>
             /\ Allocated(Nxt) \subseteq Allocated(Cur)
             /\ Cardinality(Allocated(Nxt)) <= Cardinality(Allocated(Cur))
             /\ \A i \in AdapterIds :
                  /\ heap[i].state = "unused" => heap'[i] = heap[i]
                  /\ heap'[i].callable = heap[i].callable
        /\ Step("move_construct") => heap' = heap
        /\ ((Step("move_construct") \/ Step("move_assign"))
              /\ last'.dst # last'.src /\ Live(Cur, last'.src)
              /\ View(Cur, last'.src).state = "heap"
              /\ (Sound(Cur, last'.dst) \/ ~constructed[last'.dst])
              /\ ~crashed') =>
             LET d == last'.dst
                 s == last'.src
             IN  /\ Owned(Nxt, d) = Owned(Cur, s)
                 /\ heap'[Owned(Cur, s)] = heap[Owned(Cur, s)]
                 /\ buffer'[s] = UniquePtr(0) /\ ~small_object'[s]
                 /\ Allocated(Nxt) = Allocated(Cur) \ {Owned(Cur, d)}
        /\ (Step("swap") /\ last'.dst # last'.src /\ ~crashed'
              /\ Sound(Cur, last'.dst) /\ Sound(Cur, last'.src)) =>
             /\ heap' = heap
             /\ Owned(Nxt, last'.dst) = Owned(Cur, last'.src)
             /\ Owned(Nxt, last'.src) = Owned(Cur, last'.dst)
      ]_vars

\* C11 witness: a live-heap container has been move-assigned onto another
\* live-heap container, whose adapter was released; one adapter is left.
C11_Witness ==
    /\ last.op = "move_assign" /\ last.dst # last.src /\ faults = {} /\ ~crashed
    /\ Live(Cur, last.dst) /\ View(Cur, last.dst).state = "heap"
    /\ Empty(Cur, last.src)
    /\ \E i \in AdapterIds : heap[i].state = "released"
    /\ Cardinality(Allocated(Cur)) = 1

\* C12: after operations that have all returned normally the boolean test
\* of every container is true exactly when the container is live (it holds
\* an inline adapter that is constructed and not destroyed, or a non-null
\* pointer to an allocated heap adapter): an operation that returns
\* normally from a state where that is so ends in a state where it is so;
\* and the test is false after the default and nullptr constructors and for
\* the source of a move.
C12_BoolIffLive ==
    [][ /\ ((\A c \in Cont : constructed[c] =>
                (operator_bool(Cur, c) <=> Live(Cur, c)))
              /\ ~last'.threw /\ ~crashed') =>
             \A c \in Cont : constructed'[c] =>
                (operator_bool(Nxt, c) <=> Live(Nxt, c))
        /\ (Step("function()") \/ Step("function(nullptr)")) =>
             ~operator_bool(Nxt, last'.dst)
        /\ ((Step("move_construct") \/ Step("move_assign"))
              /\ last'.dst # last'.src /\ ~crashed') =>
             ~operator_bool(Nxt, last'.src)
      ]_vars

\* C13: invoking a container (the wrapped callable returning or raising, the
\* failure reaching the caller), testing it with the boolean conversion and
\* copying from it (copy construction, or copy assignment to another
\* container, whether the copy completes or raises) leave its mode flag, its
\* liveness, its callable and the identity and state of its adapter
\* unchanged; a call and a boolean test change no container and no adapter.
C13_ReadersLeaveState ==
    [][ /\ (Step("call") \/ Step("bool")) =>
             /\ constructed' = constructed /\ small_object' = small_object
             /\ buffer' = buffer /\ heap' = heap
        /\ (Step("call") /\ Live(Cur, last'.dst)) =>
             /\ faults' = {} /\ ~crashed'
             /\ result'.kind \in {"returned", "raised"}
             /\ result'.callable = View(Cur, last'.dst).callable
             /\ Live(Nxt, last'.dst)
        /\ (Step("bool") /\ Sound(Cur, last'.dst)) =>
             /\ faults' = {} /\ ~crashed'
             /\ result'.arg = (IF Live(Cur, last'.dst) THEN 1 ELSE 0)
        /\ ((Step("copy_construct") \/ Step("copy_assign"))
              /\ last'.dst # last'.src) =>
             LET s == last'.src
             IN  /\ constructed'[s] = constructed[s]
                 /\ small_object'[s] = small_object[s]
                 /\ buffer'[s] = buffer[s]
                 /\ View(Nxt, s) = View(Cur, s)
                 /\ Owned(Nxt, s) = Owned(Cur, s)
                 /\ Owned(Cur, s) # 0 => heap'[Owned(Cur, s)] = heap[Owned(Cur, s)]
      ]_vars

\* C13 witness: the callable of a live-heap container has raised in a call,
\* and the container is still live in heap mode.
C13_Witness ==
    /\ last.op = "call" /\ result.kind = "raised" /\ faults = {} /\ ~crashed
    /\ Live(Cur, last.dst) /\ View(Cur, last.dst).state = "heap"

\* The heap adapters the named containers own.
OwnedAdapters(m) == {Owned(m, c) : c \in Cont} \ {0}

\* A large callable: one for which function(F f) takes the heap branch.
HeapEligible(f) == f.nothrow /\ f.size > MAX_SIZE

\* A small callable: one whose adapter the buffer can hold.
InlineEligible(f) == AdapterSize(f) <= MAX_SIZE

\* C14: assigning a small (inline-eligible) or large (heap-eligible)
\* callable to a container that is empty, live-inline or live-heap, in a program whose allocated heap adapters are exactly those
\* its containers own, has no undefined behaviour and, once it has returned
\* normally, leaves the container live in the mode of the callable just assigned
\* (heap for a large one, inline for a small one) and holding that callable,
\* with again exactly the owned heap adapters allocated: the adapter held
\* before is released, in particular on a large-to-small step.  Destroying
\* the container while it is inline then releases nothing and leaves only
\* the other containers' adapters allocated, none if it is the only one.
C14_AlternatingAssignment ==
    [][ (Step("assign_from") /\ Sound(Cur, last'.dst)
           /\ (InlineEligible(last'.callable) \/ HeapEligible(last'.callable))
           /\ Allocated(Cur) = OwnedAdapters(Cur)) =>
          LET c == last'.dst
              v == View(Nxt, c)
          IN  /\ faults' = {}
              /\ (~crashed' /\ ~last'.threw) =>
                   /\ Live(Nxt, c)
                   /\ v.callable = last'.callable
                   /\ v.state = (IF HeapEligible(last'.callable) THEN "heap" ELSE "inline")
                   /\ Allocated(Nxt) = OwnedAdapters(Nxt)
                   /\ Owned(Cur, c) # 0 =>
                        /\ heap'[Owned(Cur, c)].state = "released"
                        /\ Owned(Nxt, c) # Owned(Cur, c)
                   /\ (v.state = "heap") =>
                        /\ heap[Owned(Nxt, c)].state = "unused"
                        /\ heap'[Owned(Nxt, c)].state = "allocated"
                   /\ ~constructed'[TmpValue]
                   /\ (v.state = "inline") =>
                        \A o \in DestructorOracle :
                          LET after == Destructor(Nxt, c, o)
                          IN  /\ after.faults = {}
                              /\ after.heap = heap'
                              /\ Allocated(after) = OwnedAdapters(after)
                              /\ (\A x \in Cont \ {c} : ~constructed'[x]) =>
                                   Cardinality(Allocated(after)) = 0
      ]_vars

\* C14 witness: after three operations a single container that has been
\* large is inline again by an assignment, its former heap adapter released
\* and none allocated.
C14_Witness ==
    /\ last.op = "assign_from" /\ ops = 3 /\ faults = {} /\ ~crashed
    /\ Live(Cur, last.dst) /\ View(Cur, last.dst).state = "inline"
    /\ \A x \in Cont \ {last.dst} : ~constructed[x]
    /\ \E i \in AdapterIds : heap[i].state = "released"
    /\ Allocated(Cur) = {}

\* C15: a construction from a callable f that completes selects heap mode
\* exactly when f is nothrow move constructible and its adapter is larger
\* than the buffer's 128 bytes, and inline mode in every other case; a
\* nothrow-movable callable smaller than the capacity is stored inline with
\* nothing allocated, and one larger than the capacity is stored in a newly
\* allocated heap adapter.
C15_ModeSelection ==
    [][ (Step("function(F)") /\ ~last'.threw) =>
          LET c == last'.dst
              f == last'.callable
          IN  /\ constructed'[c]
              /\ ~small_object'[c] <=> (f.nothrow /\ AdapterSize(f) > MAX_SIZE)
              /\ (f.nothrow /\ f.size < MAX_SIZE) =>
                   /\ small_object'[c] /\ buffer'[c] = InPlace(f)
                   /\ heap' = heap
              /\ (f.nothrow /\ f.size > MAX_SIZE) =>
                   /\ ~small_object'[c]
                   /\ heap[Owned(Nxt, c)].state = "unused"
                   /\ heap'[Owned(Nxt, c)] = [state |-> "allocated", callable |-> f]
      ]_vars

\* C16: whenever a container is in inline mode, the adapter in its buffer
\* (the callable and the adapter's dispatch pointer) is at most 128 bytes,
\* for every size and movability of the callable; no construction writes
\* past the buffer.
C16_InlineAdapterFits ==
    /\ "buffer_overflow" \notin faults
    /\ \A c \in Slots :
         (constructed[c] /\ small_object[c] /\ buffer[c].kind = "adapter") =>
            AdapterSize(buffer[c].callable) <= MAX_SIZE

\* The faults of a virtual call on an adapter: the adapter was never
\* constructed in the member the mode flag names, has been destroyed, has
\* been released, or is reached through a null pointer.
AdapterFaults ==
    {"inactive_member", "destroyed_adapter_used", "use_after_free", "null_dereference"}

\* C17: no operation invokes call, clone_small, clone or move_by_pointer on
\* an adapter that is not constructed or is already destroyed or released,
\* nor through the union member that the mode flag does not name; and a
\* copy assignment from another live container onto a live-inline or
\* live-heap destination neither relocates from nor reads the destination's
\* adapter or pointer after destruction() has destroyed it.
C17_InterfaceOnLiveAdapters ==
    [][ /\ faults' \cap AdapterFaults = {}
        /\ (Step("copy_assign") /\ last'.dst # last'.src
              /\ Live(Cur, last'.dst) /\ Live(Cur, last'.src)) =>
             faults' = {}
      ]_vars

\* C18: every adapter constructed in an inline buffer is destroyed exactly
\* once.  No operation on containers that are empty, live-inline or
\* live-heap overwrites a buffer whose adapter has not had its destructor
\* run, and none destroys an adapter twice; in particular a move
\* construction, a move assignment or a swap that relocates the adapter of a
\* live-inline source runs the destructor of the moved-from adapter before
\* it reuses the source buffer for the null pointer.
C18_InlineAdaptersDestroyedOnce ==
    [][ /\ ((\A c \in Cont : constructed[c] => Sound(Cur, c))
              /\ (last'.src # 0 => last'.dst # last'.src)) =>
             /\ last'.abandoned = 0
             /\ "destroyed_adapter_used" \notin faults'
        /\ ((Step("move_construct") \/ Step("move_assign") \/ Step("swap"))
              /\ last'.dst # last'.src /\ ~crashed'
              /\ Live(Cur, last'.src) /\ View(Cur, last'.src).state = "inline"
              /\ (Sound(Cur, last'.dst) \/ ~constructed[last'.dst])) =>
             last'.abandoned = 0
      ]_vars

\* C19: move-assigning a live container to itself, c = std::move(c), in
\* inline mode and in heap mode, destroys no state that the assignment then
\* reads: it has no undefined behaviour, c is afterwards live in the same
\* mode with the same callable and the same heap adapter, and no adapter is
\* released or destroyed twice or overwritten undestroyed.
C19_SelfMoveAssign ==
    [][ (Step("move_assign") /\ last'.dst = last'.src /\ Live(Cur, last'.dst)) =>
          LET c == last'.dst
          IN  /\ faults' = {}
              /\ ~crashed' =>
                   /\ Live(Nxt, c)
                   /\ View(Nxt, c) = View(Cur, c)
                   /\ Owned(Nxt, c) = Owned(Cur, c)
                   /\ Allocated(Nxt) = Allocated(Cur)
                   /\ last'.abandoned = 0
      ]_vars

\* C20: a.swap(a) on a container that is empty, live-inline or live-heap,
\* once it has returned, has left a's liveness, mode, callable and heap
\* adapter as they were, has allocated and released no heap adapter, and
\* has made no virtual call on a destroyed or released adapter.
C20_SelfSwap ==
    [][ (Step("swap") /\ last'.dst = last'.src /\ Sound(Cur, last'.dst)
           /\ ~crashed') =>
          LET a == last'.dst
          IN  /\ View(Nxt, a) = View(Cur, a)
              /\ Sound(Nxt, a)
              /\ small_object'[a] = small_object[a]
              /\ buffer'[a] = buffer[a]
              /\ Owned(Nxt, a) = Owned(Cur, a)
              /\ heap' = heap
              /\ faults' \cap (AdapterFaults \cup {"double_free"}) = {}
              /\ \A c \in Slots \ {a} : buffer'[c] = buffer[c]
                                        /\ constructed'[c] = constructed[c]
      ]_vars

\* C20 witness: a live-heap container has been swapped with itself.
C20_Witness ==
    /\ last.op = "swap" /\ last.dst = last.src /\ ~crashed
    /\ Live(Cur, last.dst) /\ View(Cur, last.dst).state = "heap"
    /\ Allocated(Cur) = {Owned(Cur, last.dst)}

====
